---- MODULE Spec2Model ----
(***************************************************************************)
(* A model of src/src/ds5.h (namespace rsimpl):                            *)
(*   - ds5_timestamp_reader and ds5_hid_timestamp_reader, a table of       *)
(*     per-channel state behind one std::recursive_mutex, called from      *)
(*     several threads;                                                    *)
(*   - ds5_info::get_subdevice_count;                                      *)
(*   - ds5_camera::emitter_option::get_value_description;                  *)
(*   - ds5_camera's lazily fetched raw calibration table.                  *)
(***************************************************************************)
EXTENDS Integers, Sequences, FiniteSets, TLC

VARIABLES
    reader,          \* which of the two reader classes the instance is
    started,         \* std::vector<bool> started
    total,           \* std::vector<int64_t> total
    last_timestamp,  \* std::vector<int> last_timestamp
    counter,         \* std::vector<int64_t> counter
    mtx,             \* std::recursive_mutex _mtx: owner and recursion count
    pc,              \* per thread: the operation it is in and where
    args,            \* per thread: the (mode, frame) arguments of its call
    loc,             \* per thread: locals (loop index i / pin_index, loaded value)
    ret,             \* per thread: the value the call in progress returns
    log,             \* calls that took effect, in the order they held the lock
    depth,           \* ds5_info::_depth, the grouped image endpoints
    info_ret,        \* outcome of the last get_subdevice_count call
    emitter_ret,     \* argument and outcome of the last get_value_description call
    table,           \* _coefficients_table_raw: the lazily filled cache cell
    table_mtx,       \* the thread inside the cell's populate-once guard
    hwm,             \* the hardware monitor: requests received
    cal_pc,          \* per thread: where it is in a calibration access
    cal_ret,         \* per thread: outcome of its calibration access in progress
    cal_log          \* completed calibration accesses, in order of completion

readerVars == <<reader, started, total, last_timestamp, counter, mtx, pc, args, loc, ret, log>>
deviceVars == <<depth, info_ret, emitter_ret>>
calVars == <<table, table_mtx, hwm, cal_pc, cal_ret, cal_log>>
vars == <<readerVars, deviceVars, calVars>>

-----------------------------------------------------------------------------
(* Bounds of the model *)

MaxCalls == 5     \* reset / get_frame_counter calls per reader instance
MaxLen == 3       \* longest frame buffer handed to validate_frame
MaxVal == 4       \* largest magnitude of an emitter value handed to get_value_description
MaxAccesses == 3  \* calibration accesses per device instance

(* Program constants *)

pins == 2
sensors == 2
FOURCC_Z16 == 1513174560      \* 0x5a313620
FOURCC_GYRO == 1196380751     \* 'GYRO' = 0x4759524F
hid_data_size == 14
timestamp_offset == 6
DBL_MANT_DIG == 53            \* significand bits of the double that is returned

Threads == {"t1", "t2"}
NoThread == "none"

UVC == "ds5_timestamp_reader"
HID == "ds5_hid_timestamp_reader"
Readers == {UVC, HID}

\* number of entries of the four vectors: pins (ctor, 32-33) or sensors (94-97)
size == IF reader = UVC THEN pins ELSE sensors
Channels == 0 .. (size - 1)

Bytes == {0, 1, 255}
NoArgs == [mode |-> [fourcc |-> 0, width |-> 0, height |-> 0, image_size |-> 0], frame |-> <<>>]
NoLoc == [i |-> 0, tmp |-> 0, reads |-> {}]
\* the value a call returns, by return type: unsigned long long, bool, double
NoRet == [counter |-> 0, valid |-> FALSE, timestamp |-> [k \in 1 .. 9 |-> 0]]
Idle == [op |-> "none", at |-> "idle"]

-----------------------------------------------------------------------------
(* std::recursive_mutex and std::lock_guard *)

\* a mutant: the lock excludes nobody
try_lock_always(t) == TRUE

\* recursive_mutex::lock succeeds when the mutex is free or owned by the caller
try_lock(t) == mtx.owner \in {NoThread, t}

lock(t) == [owner |-> t, count |-> mtx.count + 1]

\* a mutant: the mutex is locked by hand and never unlocked
unlock_never(t) == mtx

unlock(t) == IF mtx.count <= 1 THEN [owner |-> NoThread, count |-> 0]
                               ELSE [owner |-> mtx.owner, count |-> mtx.count - 1]

\* std::lock_guard<std::recursive_mutex> lock(_mtx): the first statement of
\* every operation; blocks until try_lock succeeds
lock_guard(t, next) ==
    /\ pc[t].at = "lock"
    /\ try_lock(t)
    /\ mtx' = lock(t)
    /\ pc' = [pc EXCEPT ![t].at = next]

\* ~lock_guard at the end of the operation's scope, then the return
lock_guard_release(t) ==
    /\ pc[t].at = "unlock"
    /\ mtx' = unlock(t)
    /\ pc' = [pc EXCEPT ![t] = Idle]
    /\ args' = [args EXCEPT ![t] = NoArgs]
    /\ loc' = [loc EXCEPT ![t] = NoLoc]
    /\ ret' = [ret EXCEPT ![t] = NoRet]

\* calls of reset and get_frame_counter started so far
Started == Len(log) + Cardinality({t \in Threads :
               pc[t].op \in {"reset", "get_frame_counter"} /\ pc[t].at \in {"lock", "loop", "index", "load", "store"}})

-----------------------------------------------------------------------------
(* Construction: the vectors get `size` value-initialised entries, then    *)
(* reset() runs.                                                           *)

ReaderInit ==
    /\ reader \in Readers
    /\ started = [i \in 0 .. 1 |-> FALSE]
    /\ total = [i \in 0 .. 1 |-> 0]
    /\ last_timestamp = [i \in 0 .. 1 |-> 0]
    /\ counter = [i \in 0 .. 1 |-> 0]
    /\ mtx = [owner |-> NoThread, count |-> 0]
    /\ pc = [t \in Threads |-> Idle]
    /\ args = [t \in Threads |-> NoArgs]
    /\ loc = [t \in Threads |-> NoLoc]
    /\ ret = [t \in Threads |-> NoRet]
    /\ log = <<>>

-----------------------------------------------------------------------------
(* reset() *)

reset_call(t) ==
    /\ pc[t] = Idle
    /\ Started < MaxCalls
    /\ pc' = [pc EXCEPT ![t] = [op |-> "reset", at |-> "lock"]]
    /\ UNCHANGED <<deviceVars, calVars, reader, started, total, last_timestamp, counter, mtx, args, loc, ret, log>>

\* a mutant: reset without its lock_guard
reset_lock_unguarded(t) ==
    /\ pc[t] = [op |-> "reset", at |-> "lock"]
    /\ pc' = [pc EXCEPT ![t].at = "loop"]
    /\ loc' = [loc EXCEPT ![t].i = 0]
    /\ UNCHANGED <<deviceVars, calVars, reader, started, total, last_timestamp, counter, mtx, args, ret, log>>

reset_lock(t) ==
    /\ pc[t].op = "reset"
    /\ lock_guard(t, "loop")
    /\ loc' = [loc EXCEPT ![t].i = 0]
    /\ UNCHANGED <<deviceVars, calVars, reader, started, total, last_timestamp, counter, args, ret, log>>

\* a mutant: the loop stops one entry short
reset_more_short(i) == i < size - 1

\* the loop condition i < pins (i < sensors)
reset_more(i) == i < size

\* one iteration of the for loop, or its exit
reset_loop(t) ==
    /\ pc[t] = [op |-> "reset", at |-> "loop"]
    /\ IF reset_more(loc[t].i)
       THEN /\ started' = [started EXCEPT ![loc[t].i] = FALSE]
            /\ total' = [total EXCEPT ![loc[t].i] = 0]
            /\ last_timestamp' = [last_timestamp EXCEPT ![loc[t].i] = 0]
            /\ counter' = [counter EXCEPT ![loc[t].i] = 0]
            /\ loc' = [loc EXCEPT ![t].i = loc[t].i + 1]
            /\ UNCHANGED <<pc, log>>
       ELSE /\ pc' = [pc EXCEPT ![t].at = "unlock"]
            /\ log' = Append(log, [op |-> "reset", pin |-> 0, val |-> 0])
            /\ UNCHANGED <<started, total, last_timestamp, counter, loc>>
    /\ UNCHANGED <<deviceVars, calVars, reader, mtx, args, ret>>

reset_return(t) ==
    /\ pc[t].op = "reset"
    /\ lock_guard_release(t)
    /\ UNCHANGED <<deviceVars, calVars, reader, started, total, last_timestamp, counter, log>>

-----------------------------------------------------------------------------
(* get_frame_counter(mode, frame) *)

\* the one four-character code that selects channel 1
fixed_fourcc == IF reader = UVC THEN FOURCC_Z16 ELSE FOURCC_GYRO

\* a mutant: every stream lands on channel 0
pin_index_zero(fourcc) == 0

\* int pin_index = 0; if (mode.pf->fourcc == 0x5a313620) pin_index = 1;
pin_index(fourcc) == IF fourcc = fixed_fourcc THEN 1 ELSE 0

\* a mutant: --counter[pin_index]
pre_decrement(old) == [stored |-> old - 1, returned |-> old - 1]

\* a mutant: counter[pin_index]++ (the value before the increment is returned)
post_increment(old) == [stored |-> old + 1, returned |-> old]

\* ++counter[pin_index]: the stored and the returned value
pre_increment(old) == [stored |-> old + 1, returned |-> old + 1]

get_frame_counter_call(t, fourcc) ==
    /\ pc[t] = Idle
    /\ Started < MaxCalls
    /\ pc' = [pc EXCEPT ![t] = [op |-> "get_frame_counter", at |-> "lock"]]
    /\ args' = [args EXCEPT ![t] = [NoArgs EXCEPT !.mode.fourcc = fourcc]]
    /\ UNCHANGED <<deviceVars, calVars, reader, started, total, last_timestamp, counter, mtx, loc, ret, log>>

get_frame_counter_lock(t) ==
    /\ pc[t].op = "get_frame_counter"
    /\ lock_guard(t, "index")
    /\ UNCHANGED <<deviceVars, calVars, reader, started, total, last_timestamp, counter, args, loc, ret, log>>

get_frame_counter_index(t) ==
    /\ pc[t] = [op |-> "get_frame_counter", at |-> "index"]
    /\ loc' = [loc EXCEPT ![t].i = pin_index(args[t].mode.fourcc)]
    /\ pc' = [pc EXCEPT ![t].at = "load"]
    /\ UNCHANGED <<deviceVars, calVars, reader, started, total, last_timestamp, counter, mtx, args, ret, log>>

\* ++counter[pin_index] reads the entry ...
get_frame_counter_load(t) ==
    /\ pc[t] = [op |-> "get_frame_counter", at |-> "load"]
    /\ loc' = [loc EXCEPT ![t].tmp = counter[loc[t].i]]
    /\ pc' = [pc EXCEPT ![t].at = "store"]
    /\ UNCHANGED <<deviceVars, calVars, reader, started, total, last_timestamp, counter, mtx, args, ret, log>>

\* a mutant: the call also marks the channel as started
get_frame_counter_store_started(t) ==
    /\ pc[t] = [op |-> "get_frame_counter", at |-> "store"]
    /\ counter' = [counter EXCEPT ![loc[t].i] = loc[t].tmp + 1]
    /\ started' = [started EXCEPT ![loc[t].i] = TRUE]
    /\ ret' = [ret EXCEPT ![t].counter = loc[t].tmp + 1]
    /\ log' = Append(log, [op |-> "get_frame_counter", pin |-> loc[t].i, val |-> loc[t].tmp + 1])
    /\ pc' = [pc EXCEPT ![t].at = "unlock"]
    /\ UNCHANGED <<deviceVars, calVars, reader, total, last_timestamp, mtx, args, loc>>

\* ... and writes it back incremented; the expression's value is returned
get_frame_counter_store(t) ==
    /\ pc[t] = [op |-> "get_frame_counter", at |-> "store"]
    /\ LET r == pre_increment(loc[t].tmp)
       IN /\ counter' = [counter EXCEPT ![loc[t].i] = r.stored]
          /\ ret' = [ret EXCEPT ![t].counter = r.returned]
          /\ log' = Append(log, [op |-> "get_frame_counter", pin |-> loc[t].i, val |-> r.returned])
    /\ pc' = [pc EXCEPT ![t].at = "unlock"]
    /\ UNCHANGED <<deviceVars, calVars, reader, started, total, last_timestamp, mtx, args, loc>>

get_frame_counter_return(t) ==
    /\ pc[t].op = "get_frame_counter"
    /\ lock_guard_release(t)
    /\ UNCHANGED <<deviceVars, calVars, reader, started, total, last_timestamp, counter, log>>

-----------------------------------------------------------------------------
(* validate_frame(mode, frame) *)

\* mode.pf->get_image_size(mode.profile.width, mode.profile.height): the
\* pixel format's answer, carried by the mode
get_image_size(mode) == mode.image_size

\* a mutant: the scan starts at the second byte
scan_from_second(frame, it, end) == \E k \in (it + 2) .. end : frame[k] # 0

RECURSIVE scan(_, _, _)
\* for (it = frame, end = it + size; it != end; ++it) if (*it) return true;
\* return false;   (it and end are offsets from frame)
scan(frame, it, end) ==
    IF it = end THEN FALSE
    ELSE IF frame[it + 1] # 0 THEN TRUE
    ELSE scan(frame, it + 1, end)

validate_frame_call(t, mode, frame) ==
    /\ pc[t] = Idle
    /\ pc' = [pc EXCEPT ![t] = [op |-> "validate_frame", at |-> "lock"]]
    /\ args' = [args EXCEPT ![t] = [mode |-> mode, frame |-> frame]]
    /\ UNCHANGED <<deviceVars, calVars, reader, started, total, last_timestamp, counter, mtx, loc, ret, log>>

validate_frame_lock(t) ==
    /\ pc[t].op = "validate_frame"
    /\ lock_guard(t, "scan")
    /\ UNCHANGED <<deviceVars, calVars, reader, started, total, last_timestamp, counter, args, loc, ret, log>>

validate_frame_scan(t) ==
    /\ pc[t] = [op |-> "validate_frame", at |-> "scan"]
    /\ ret' = [ret EXCEPT ![t].valid = scan(args[t].frame, 0, get_image_size(args[t].mode))]
    /\ pc' = [pc EXCEPT ![t].at = "unlock"]
    /\ UNCHANGED <<deviceVars, calVars, reader, started, total, last_timestamp, counter, mtx, args, loc, log>>

validate_frame_return(t) ==
    /\ pc[t].op = "validate_frame"
    /\ lock_guard_release(t)
    /\ UNCHANGED <<deviceVars, calVars, reader, started, total, last_timestamp, counter, log>>

-----------------------------------------------------------------------------
(* get_frame_timestamp(mode, frame)                                        *)
(*                                                                         *)
(* 64-bit values do not fit the checker's integers: a uint64_t is its      *)
(* eight bytes, least significant first (the order they have in memory on  *)
(* the little-endian hosts the library is built for), and a double is the  *)
(* integer it equals, as nine such bytes (2^64 needs the ninth).           *)

Pow2(n) == 2 ^ n

DoubleZero == [k \in 1 .. 9 |-> 0]

\* *((uint64_t*)((const uint8_t*)frame + off))
load_uint64(frame, off) == [k \in 1 .. 8 |-> frame[off + k]]

\* index of the most significant non-zero byte, 0 for the value 0
top_byte(v) == IF \A k \in 1 .. 8 : v[k] = 0 THEN 0
               ELSE CHOOSE k \in 1 .. 8 : v[k] # 0 /\ \A j \in (k + 1) .. 8 : v[j] = 0

\* number of significant bits of a byte
byte_bits(b) == CHOOSE n \in 0 .. 8 : b < Pow2(n) /\ (n = 0 \/ b >= Pow2(n - 1))

\* number of significant bits of the value
bit_length(v) == IF top_byte(v) = 0 THEN 0
                 ELSE 8 * (top_byte(v) - 1) + byte_bits(v[top_byte(v)])

\* v with its low 16 bits replaced by low (0 .. 65536), the carry propagated
RECURSIVE add_carry(_, _, _)
add_carry(d, k, c) ==
    IF c = 0 \/ k > 9 THEN d
    ELSE add_carry([d EXCEPT ![k] = (d[k] + c) % 256], k + 1, (d[k] + c) \div 256)

with_low16(v, low) ==
    add_carry([k \in 1 .. 9 |-> IF k = 1 THEN low % 256
                                ELSE IF k = 2 THEN (low \div 256) % 256
                                ELSE IF k = 9 THEN 0 ELSE v[k]],
              3, low \div 65536)

\* static_cast<double>(uint64_t): exact up to 53 significant bits, beyond
\* that rounded to 53 bits, to nearest, ties to even. At most 11 bits are
\* dropped, all of them in the low 16.
to_double(v) ==
    LET s == bit_length(v) - DBL_MANT_DIG
        low == v[1] + 256 * v[2]
        unit == Pow2(s)
        rem == low % unit
        up == 2 * rem > unit \/ (2 * rem = unit /\ (low \div unit) % 2 = 1)
    IN IF s <= 0 THEN [k \in 1 .. 9 |-> IF k = 9 THEN 0 ELSE v[k]]
       ELSE with_low16(v, low - rem + (IF up THEN unit ELSE 0))

\* the bytes of the frame a uint64_t load at byte offset off reads
uint64_bytes(off) == off .. (off + 7)

\* a mutant: the timestamp is read whatever the size
hid_get_frame_timestamp_unchecked(mode, frame) ==
    [value |-> IF Len(frame) >= timestamp_offset + 8
               THEN to_double(load_uint64(frame, timestamp_offset))
               ELSE DoubleZero,
     reads |-> uint64_bytes(timestamp_offset)]

\* ds5_timestamp_reader: return 0; the frame is not looked at
uvc_get_frame_timestamp(mode, frame) == [value |-> DoubleZero, reads |-> {}]

\* ds5_hid_timestamp_reader: frame_size = width * height (the widths of the
\* model stay far below the 32 bits of the product); the value returned and
\* the bytes of the frame read for it
hid_get_frame_timestamp(mode, frame) ==
    LET frame_size == mode.width * mode.height
    IN IF frame_size = hid_data_size
       THEN [value |-> to_double(load_uint64(frame, timestamp_offset)),
             reads |-> uint64_bytes(timestamp_offset)]
       ELSE [value |-> DoubleZero, reads |-> {}]

get_frame_timestamp_call(t, mode, frame) ==
    /\ pc[t] = Idle
    /\ pc' = [pc EXCEPT ![t] = [op |-> "get_frame_timestamp", at |-> "lock"]]
    /\ args' = [args EXCEPT ![t] = [mode |-> mode, frame |-> frame]]
    /\ UNCHANGED <<deviceVars, calVars, reader, started, total, last_timestamp, counter, mtx, loc, ret, log>>

\* a mutant: get_frame_timestamp without its lock_guard
get_frame_timestamp_lock_unguarded(t) ==
    /\ pc[t] = [op |-> "get_frame_timestamp", at |-> "lock"]
    /\ pc' = [pc EXCEPT ![t].at = "read"]
    /\ UNCHANGED <<deviceVars, calVars, reader, started, total, last_timestamp, counter, mtx, args, loc, ret, log>>

get_frame_timestamp_lock(t) ==
    /\ pc[t].op = "get_frame_timestamp"
    /\ lock_guard(t, "read")
    /\ UNCHANGED <<deviceVars, calVars, reader, started, total, last_timestamp, counter, args, loc, ret, log>>

get_frame_timestamp_read(t) ==
    /\ pc[t] = [op |-> "get_frame_timestamp", at |-> "read"]
    /\ LET r == IF reader = UVC
                THEN uvc_get_frame_timestamp(args[t].mode, args[t].frame)
                ELSE hid_get_frame_timestamp(args[t].mode, args[t].frame)
       IN /\ ret' = [ret EXCEPT ![t].timestamp = r.value]
          /\ loc' = [loc EXCEPT ![t].reads = r.reads]
    /\ pc' = [pc EXCEPT ![t].at = "unlock"]
    /\ UNCHANGED <<deviceVars, calVars, reader, started, total, last_timestamp, counter, mtx, args, log>>

get_frame_timestamp_return(t) ==
    /\ pc[t].op = "get_frame_timestamp"
    /\ lock_guard_release(t)
    /\ UNCHANGED <<deviceVars, calVars, reader, started, total, last_timestamp, counter, log>>

-----------------------------------------------------------------------------
(* ds5_info::get_subdevice_count()                                         *)
(*                                                                         *)
(* The ds:: product identifiers are named by the header and valued in      *)
(* ds5-private.h; the switch needs them pairwise distinct and nothing      *)
(* else, so they are their names. UnknownPids are identifiers that are     *)
(* none of the five.                                                       *)

SinglePids == {"RS400P_PID", "RS410A_PID", "RS420R_PID", "RS430C_PID"}
MultiPids == {"RS450T_PID"}
rs4xx_sku_pid == SinglePids \cup MultiPids
UnknownPids == {"0x0000", "0xffff"}
AllPids == rs4xx_sku_pid \cup UnknownPids

\* how a call ends: with a value, or with an exception (`none` fills the
\* value's place)
Returns(v) == [ok |-> TRUE, value |-> v, error |-> ""]
Throws(e, none) == [ok |-> FALSE, value |-> none, error |-> e]
NotCalled(none) == [ok |-> FALSE, value |-> none, error |-> "not called"]

\* a mutant: the switch has `default: return 1`
subdevice_count_default(depth_pid) ==
    IF depth_pid \in MultiPids THEN Returns(3) ELSE Returns(1)

\* switch (depth_pid)
subdevice_count(depth_pid) ==
    CASE depth_pid \in {"RS400P_PID", "RS410A_PID", "RS420R_PID", "RS430C_PID"} -> Returns(1)
      [] depth_pid = "RS450T_PID" -> Returns(3)
      [] OTHER -> Throws("not_implemented_exception", 0)

\* auto depth_pid = _depth.front().pid
get_subdevice_count ==
    /\ info_ret' = [called |-> TRUE, pid |-> Head(depth).pid, out |-> subdevice_count(Head(depth).pid)]
    /\ UNCHANGED <<depth, emitter_ret, readerVars, calVars>>

\* ds5_info(backend, depth, hwm, hid): one to two image endpoints of one unit
DeviceInit ==
    /\ depth \in {<<[pid |-> p]>> : p \in AllPids} \cup {<<[pid |-> p], [pid |-> p]>> : p \in AllPids}
    /\ info_ret = [called |-> FALSE, pid |-> "", out |-> NotCalled(0)]
    /\ emitter_ret = [called |-> FALSE, val |-> 0, out |-> NotCalled("")]

-----------------------------------------------------------------------------
(* ds5_camera::emitter_option::get_value_description(float val)            *)
(*                                                                         *)
(* A float argument is a number of halves: h stands for h / 2.             *)

\* static_cast<int>(val) discards the fractional part
static_cast_int(h) == IF h >= 0 THEN h \div 2 ELSE -((-h) \div 2)

\* a mutant: `default: return "Auto"`
value_description_default(v) ==
    CASE v = 0 -> Returns("Off")
      [] v = 1 -> Returns("On")
      [] OTHER -> Returns("Auto")

\* switch (static_cast<int>(val))
value_description(v) ==
    CASE v = 0 -> Returns("Off")
      [] v = 1 -> Returns("On")
      [] v = 2 -> Returns("Auto")
      [] OTHER -> Throws("invalid_value_exception", "")

get_value_description(h) ==
    /\ emitter_ret' = [called |-> TRUE, val |-> h, out |-> value_description(static_cast_int(h))]
    /\ UNCHANGED <<depth, info_ret, readerVars, calVars>>

-----------------------------------------------------------------------------
(* ds5_camera::_coefficients_table_raw and get_raw_calibration_table       *)
(*                                                                         *)
(* The header declares the lazy cell and the accessor; the cell's          *)
(* populate-once guard and the hardware-monitor request are described by   *)
(* the design: the first access sends one request and blocks for the       *)
(* answer, a success fills the cell for the device's lifetime, a failure   *)
(* goes to the caller and leaves the cell empty.                           *)

TableIds == {"coefficients_table_id", "depth_calibration_id"}
Blobs == {<<0>>, <<1, 2>>}
Empty == [was_init |-> FALSE, data |-> <<>>]
NoAccess == [table_id |-> "", began |-> 0, sent |-> FALSE, out |-> NotCalled(<<>>)]

CalInit ==
    /\ table = Empty
    /\ table_mtx = NoThread
    /\ hwm = [requests |-> 0]
    /\ cal_pc = [t \in Threads |-> "idle"]
    /\ cal_ret = [t \in Threads |-> NoAccess]
    /\ cal_log = <<>>

cal_started == Len(cal_log) + Cardinality({t \in Threads : cal_pc[t] # "idle"})

\* the caller enters the accessor; `began` notes how many accesses had
\* completed by then
cal_call(t, table_id) ==
    /\ cal_pc[t] = "idle"
    /\ cal_started < MaxAccesses
    /\ cal_pc' = [cal_pc EXCEPT ![t] = "lock"]
    /\ cal_ret' = [cal_ret EXCEPT ![t] = [NoAccess EXCEPT !.table_id = table_id, !.began = Len(cal_log)]]
    /\ UNCHANGED <<table, table_mtx, hwm, cal_log, readerVars, deviceVars>>

\* a mutant: the guard excludes nobody
cal_lock_unguarded(t) ==
    /\ cal_pc[t] = "lock"
    /\ table_mtx' = t
    /\ cal_pc' = [cal_pc EXCEPT ![t] = "check"]
    /\ UNCHANGED <<table, hwm, cal_ret, cal_log, readerVars, deviceVars>>

\* the populate-once guard is taken
cal_lock(t) ==
    /\ cal_pc[t] = "lock"
    /\ table_mtx = NoThread
    /\ table_mtx' = t
    /\ cal_pc' = [cal_pc EXCEPT ![t] = "check"]
    /\ UNCHANGED <<table, hwm, cal_ret, cal_log, readerVars, deviceVars>>

\* a mutant: the cell is never found filled
cal_is_cached_never == FALSE

cal_is_cached == table.was_init

\* filled: the cached bytes are the answer; empty: the request goes out
cal_check(t) ==
    /\ cal_pc[t] = "check"
    /\ IF cal_is_cached
       THEN /\ cal_ret' = [cal_ret EXCEPT ![t].out = Returns(table.data)]
            /\ cal_pc' = [cal_pc EXCEPT ![t] = "unlock"]
            /\ UNCHANGED hwm
       ELSE /\ hwm' = [hwm EXCEPT !.requests = hwm.requests + 1]
            /\ cal_ret' = [cal_ret EXCEPT ![t].sent = TRUE]
            /\ cal_pc' = [cal_pc EXCEPT ![t] = "wait"]
    /\ UNCHANGED <<table, table_mtx, cal_log, readerVars, deviceVars>>

\* the transport answers with the table's bytes
cal_response(t, bytes) ==
    /\ cal_pc[t] = "wait"
    /\ table' = [was_init |-> TRUE, data |-> bytes]
    /\ cal_ret' = [cal_ret EXCEPT ![t].out = Returns(bytes)]
    /\ cal_pc' = [cal_pc EXCEPT ![t] = "unlock"]
    /\ UNCHANGED <<table_mtx, hwm, cal_log, readerVars, deviceVars>>

\* a mutant: the failure fills the cell (with no bytes)
cal_failure_cached(t) ==
    /\ cal_pc[t] = "wait"
    /\ table' = [was_init |-> TRUE, data |-> <<>>]
    /\ cal_ret' = [cal_ret EXCEPT ![t].out = Throws("transport", <<>>)]
    /\ cal_pc' = [cal_pc EXCEPT ![t] = "unlock"]
    /\ UNCHANGED <<table_mtx, hwm, cal_log, readerVars, deviceVars>>

\* the transport reports a failure
cal_failure(t) ==
    /\ cal_pc[t] = "wait"
    /\ cal_ret' = [cal_ret EXCEPT ![t].out = Throws("transport", <<>>)]
    /\ cal_pc' = [cal_pc EXCEPT ![t] = "unlock"]
    /\ UNCHANGED <<table, table_mtx, hwm, cal_log, readerVars, deviceVars>>

\* the guard is released and the access returns (or throws)
cal_return(t) ==
    /\ cal_pc[t] = "unlock"
    /\ table_mtx' = NoThread
    /\ cal_log' = Append(cal_log, [began |-> cal_ret[t].began, sent |-> cal_ret[t].sent, out |-> cal_ret[t].out])
    /\ cal_pc' = [cal_pc EXCEPT ![t] = "idle"]
    /\ cal_ret' = [cal_ret EXCEPT ![t] = NoAccess]
    /\ UNCHANGED <<table, hwm, readerVars, deviceVars>>

-----------------------------------------------------------------------------
(* Arguments the callers pass *)

Mode(fourcc, width, height, image_size) ==
    [fourcc |-> fourcc, width |-> width, height |-> height, image_size |-> image_size]

Fill(n, b) == [k \in 1 .. n |-> b]
Ramp(n) == [k \in 1 .. n |-> k]

\* every buffer of at most MaxLen bytes
Frames == UNION {[1 .. n -> Bytes] : n \in 0 .. MaxLen}

\* a buffer and an image size it covers, as validate_frame's caller owes
ValidateInputs ==
    UNION {{[mode |-> Mode(0, n, 1, n), frame |-> f] : n \in 0 .. Len(f)} : f \in Frames}

\* 64-bit values around the 53 bits a double holds, least significant byte first
U64Samples == {
    <<0, 0, 0, 0, 0, 0, 0, 0>>,
    <<1, 0, 0, 0, 0, 0, 0, 0>>,
    <<1, 2, 3, 4, 5, 6, 7, 0>>,
    <<255, 255, 255, 255, 255, 255, 31, 0>>,     \* 2^53 - 1
    <<0, 0, 0, 0, 0, 0, 32, 0>>,                 \* 2^53
    <<1, 0, 0, 0, 0, 0, 32, 0>>,                 \* 2^53 + 1
    <<3, 0, 0, 0, 0, 0, 32, 0>>,                 \* 2^53 + 3
    <<8, 7, 6, 5, 4, 3, 2, 1>>,
    <<0, 4, 0, 0, 0, 0, 0, 128>>,                \* 2^63 + 2^10
    <<1, 4, 0, 0, 0, 0, 0, 128>>,
    <<0, 12, 0, 0, 0, 0, 0, 128>>,
    <<255, 255, 255, 255, 255, 255, 255, 255>>   \* 2^64 - 1
}

HidPrefixes == {Fill(timestamp_offset, 0), Fill(timestamp_offset, 255), Ramp(timestamp_offset)}
HidFrames == {p \o v : p \in HidPrefixes, v \in U64Samples}

\* width and height of an inertial payload, and payloads of that many bytes
HidShapes == {<<14, 1>>, <<7, 2>>, <<1, 14>>, <<0, 0>>, <<1, 1>>, <<13, 1>>, <<15, 1>>,
              <<14, 0>>, <<7, 1>>, <<4, 4>>, <<14, 2>>}

PayloadsOf(n) == {Fill(n, 0), Fill(n, 255), Ramp(n)} \cup (IF n = hid_data_size THEN HidFrames ELSE {})

TimestampInputs ==
    UNION {{[mode |-> Mode(0, wh[1], wh[2], wh[1] * wh[2]), frame |-> f] : f \in PayloadsOf(wh[1] * wh[2])} :
           wh \in HidShapes}

\* the few arguments the concurrent callers use
SmallValidateInputs == {x \in ValidateInputs : x.frame \in {<<>>, <<0, 0>>, <<0, 1>>} /\ x.mode.image_size = Len(x.frame)}
SmallTimestampInputs == {x \in TimestampInputs : x.frame \in {<<0>>, Ramp(hid_data_size)} /\ x.mode.height = 1}

FourCCs == {FOURCC_Z16, FOURCC_GYRO}
FrameFourCCs == {FOURCC_Z16}

-----------------------------------------------------------------------------
(* Specifications *)

ReaderParked == ReaderInit /\ reader = UVC
DeviceParked == DeviceInit /\ depth = <<[pid |-> "RS400P_PID"]>>

\* the steps of one caller of a reader instance
ReaderStep(t, fourccs, validate_inputs, timestamp_inputs) ==
    \/ reset_call(t)
    \/ reset_lock(t)
    \/ reset_loop(t)
    \/ reset_return(t)
    \/ \E fourcc \in fourccs : get_frame_counter_call(t, fourcc)
    \/ get_frame_counter_lock(t)
    \/ get_frame_counter_index(t)
    \/ get_frame_counter_load(t)
    \/ get_frame_counter_store(t)
    \/ get_frame_counter_return(t)
    \/ \E x \in validate_inputs : validate_frame_call(t, x.mode, x.frame)
    \/ validate_frame_lock(t)
    \/ validate_frame_scan(t)
    \/ validate_frame_return(t)
    \/ \E x \in timestamp_inputs : get_frame_timestamp_call(t, x.mode, x.frame)
    \/ get_frame_timestamp_lock(t)
    \/ get_frame_timestamp_read(t)
    \/ get_frame_timestamp_return(t)

\* a reader instance called from several threads
Init == ReaderInit /\ DeviceParked /\ CalInit

Next == \E t \in Threads : ReaderStep(t, FourCCs, SmallValidateInputs, SmallTimestampInputs)

Spec == Init /\ [][Next]_vars

\* the same under fair scheduling: a thread inside a body keeps running
\* (weak fairness), and a thread waiting for the mutex gets it if it is free
\* again and again (strong fairness: no caller is passed over for ever)
Acquire(t) ==
    \/ reset_lock(t)
    \/ get_frame_counter_lock(t)
    \/ validate_frame_lock(t)
    \/ get_frame_timestamp_lock(t)

Run(t) ==
    \/ reset_loop(t)
    \/ reset_return(t)
    \/ get_frame_counter_index(t)
    \/ get_frame_counter_load(t)
    \/ get_frame_counter_store(t)
    \/ get_frame_counter_return(t)
    \/ validate_frame_scan(t)
    \/ validate_frame_return(t)
    \/ get_frame_timestamp_read(t)
    \/ get_frame_timestamp_return(t)

\* the callers pass one stream's frames
NextFair ==
    \E t \in Threads :
        ReaderStep(t, FrameFourCCs,
                   {x \in SmallValidateInputs : x.frame = <<0, 1>>},
                   {x \in SmallTimestampInputs : x.frame = Ramp(hid_data_size)})

SpecFair == Init /\ [][NextFair]_vars /\ \A t \in Threads : WF_vars(Run(t)) /\ SF_vars(Acquire(t))

\* a reader instance called from one thread with every frame of the bounds
NextFrame == ReaderStep("t1", FrameFourCCs, ValidateInputs, TimestampInputs)

SpecFrame == Init /\ [][NextFrame]_vars

\* a ds5_info of any product and the emitter option of its camera
InitDevice == ReaderParked /\ DeviceInit /\ CalInit

NextDevice ==
    \/ get_subdevice_count
    \/ \E h \in (-2 * MaxVal) .. (2 * MaxVal) : get_value_description(h)

SpecDevice == InitDevice /\ [][NextDevice]_vars

\* the calibration table of one camera, accessed from several threads
InitCalibration == ReaderParked /\ DeviceParked /\ CalInit

NextCalibration ==
    \E t \in Threads :
        \/ \E table_id \in TableIds : cal_call(t, table_id)
        \/ cal_lock(t)
        \/ cal_check(t)
        \/ \E bytes \in Blobs : cal_response(t, bytes)
        \/ cal_failure(t)
        \/ cal_return(t)

SpecCalibration == InitCalibration /\ [][NextCalibration]_vars

-----------------------------------------------------------------------------
(* Properties of the readers *)

IsCounter(e, ch) == e.op = "get_frame_counter" /\ e.pin = ch
IsReset(e) == e.op = "reset"
NoResetIn(a, b) == \A k \in a .. b : ~IsReset(log[k])

\* the values get_frame_counter returned on channel ch, in call order
Returned(ch) ==
    LET OnCh(e) == IsCounter(e, ch)
    IN [k \in 1 .. Len(SelectSeq(log, OnCh)) |-> SelectSeq(log, OnCh)[k].val]

\* a thread is inside an operation's body: past the lock_guard, not yet out
InBody(t) == pc[t].at \notin {"idle", "lock"}

\* C1: with no reset since construction, the values get_frame_counter
\* returns on one channel are 1, 2, 3, ... in call order, whatever calls on
\* the other channel come in between.
C1_CountsFromOne ==
    NoResetIn(1, Len(log)) =>
        \A ch \in Channels : \A k \in 1 .. Len(Returned(ch)) : Returned(ch)[k] = k

C1_Witness ==
    /\ NoResetIn(1, Len(log))
    /\ Len(log) = 4
    /\ Returned(0) = <<1, 2>>
    /\ Returned(1) = <<1, 2>>
    /\ log[1].pin # log[2].pin /\ log[2].pin # log[3].pin

\* C2: after a reset, the next get_frame_counter call on each channel
\* returns 1, whatever the counters were before.
C2_OneAfterReset ==
    \A p \in 1 .. Len(log) : \A q \in (p + 1) .. Len(log) : \A ch \in Channels :
        ( /\ IsReset(log[p])
          /\ IsCounter(log[q], ch)
          /\ \A k \in (p + 1) .. (q - 1) : ~IsCounter(log[k], ch) )
        => log[q].val = 1

C2_Witness ==
    /\ Len(log) = 5
    /\ IsCounter(log[1], 0) /\ IsCounter(log[2], 1)
    /\ IsReset(log[3])
    /\ IsCounter(log[4], 1) /\ IsCounter(log[5], 0)

\* C3 as stated: no two get_frame_counter calls on an instance ever return
\* the same value for the same channel.
C3_NeverSameValue ==
    \A p \in 1 .. Len(log) : \A q \in (p + 1) .. Len(log) : \A ch \in Channels :
        (IsCounter(log[p], ch) /\ IsCounter(log[q], ch)) => log[p].val # log[q].val

\* C3 amended: no two get_frame_counter calls with no reset between them
\* return the same value for the same channel, under any interleaving of
\* the calling threads.
C3_DistinctBetweenResets ==
    \A p \in 1 .. Len(log) : \A q \in (p + 1) .. Len(log) : \A ch \in Channels :
        (IsCounter(log[p], ch) /\ IsCounter(log[q], ch) /\ NoResetIn(p, q))
        => log[p].val # log[q].val

\* two threads inside get_frame_counter on one channel at once, one of them
\* blocked, after a reset and two earlier calls on that channel
C3_Witness ==
    /\ Len(log) = 4
    /\ IsCounter(log[1], 1) /\ IsReset(log[2]) /\ IsCounter(log[3], 1) /\ IsCounter(log[4], 1)
    /\ pc["t1"] = [op |-> "get_frame_counter", at |-> "unlock"]
    /\ pc["t2"] = [op |-> "get_frame_counter", at |-> "lock"]
    /\ pin_index(args["t2"].mode.fourcc) = 1

\* C4: while a thread is between reset's zeroing of channel 0 and its
\* zeroing of the last channel, no other thread takes a step inside any
\* operation's body: no call takes effect in, or observes, the partly reset
\* state.
C4_ResetAtomic ==
    [][\A t \in Threads :
          (pc[t] = [op |-> "reset", at |-> "loop"] /\ loc[t].i \in 1 .. (size - 1))
          => \A u \in Threads \ {t} :
                /\ ~InBody(u)
                /\ pc'[u].at \in {"idle", "lock"}]_vars

\* channel 0 is zeroed, channel 1 still counts 2, and the other thread waits
C4_Witness ==
    \E t \in Threads : \E u \in Threads \ {t} :
        /\ pc[t] = [op |-> "reset", at |-> "loop"]
        /\ loc[t].i = 1
        /\ counter[0] = 0 /\ counter[1] = 2
        /\ pc[u] = [op |-> "get_frame_counter", at |-> "lock"]

\* C5: at most one thread is inside the body of an operation of the
\* instance, and that thread owns the instance's mutex.
C5_MutualExclusion ==
    /\ Cardinality({t \in Threads : InBody(t)}) <= 1
    /\ \A t \in Threads : InBody(t) => (mtx.owner = t /\ mtx.count = 1)
    /\ (\A t \in Threads : ~InBody(t)) => mtx.owner = NoThread

C5_Witness ==
    /\ pc["t1"] = [op |-> "validate_frame", at |-> "scan"]
    /\ pc["t2"] = [op |-> "get_frame_timestamp", at |-> "lock"]
    /\ mtx.owner = "t1"
    /\ counter[0] > 0

-----------------------------------------------------------------------------
(* Properties of the frame functions *)

\* a 64-bit value as the nine bytes of a double's integer value
Widen(v) == [k \in 1 .. 9 |-> IF k = 9 THEN 0 ELSE v[k]]

\* comparison of two nine-byte values, most significant byte first
RECURSIVE LeqFrom(_, _, _)
LeqFrom(a, b, k) ==
    IF k = 0 THEN TRUE
    ELSE IF a[k] # b[k] THEN a[k] < b[k]
    ELSE LeqFrom(a, b, k - 1)

Leq(a, b) == LeqFrom(a, b, 9)

\* the eight bytes at byte offset 6 of the payload
StoredAt6(frame) == [k \in 1 .. 8 |-> frame[6 + k]]

\* C6: validate_frame returns true exactly when one of the first
\* image_size bytes of the buffer is non-zero: false for all-zero and for
\* size 0, whatever the reader's channel state.
C6_ValidateFrame ==
    \A t \in Threads :
        pc[t] = [op |-> "validate_frame", at |-> "unlock"]
        => ret[t].valid = (\E k \in 1 .. args[t].mode.image_size : args[t].frame[k] # 0)

\* a non-zero byte only behind the image, counters that have moved
C6_Witness ==
    /\ pc["t1"] = [op |-> "validate_frame", at |-> "unlock"]
    /\ args["t1"].mode.image_size = 2
    /\ args["t1"].frame = <<0, 0, 255>>
    /\ ret["t1"].valid = FALSE
    /\ counter[0] + counter[1] >= 2

\* C7 as stated: the inertial reader's get_frame_timestamp returns 0 when
\* width * height is not 14, and the 64-bit value at byte offset 6 when it is.
C7_TimestampIsStoredValue ==
    \A t \in Threads :
        (reader = HID /\ pc[t] = [op |-> "get_frame_timestamp", at |-> "unlock"])
        => ret[t].timestamp = IF args[t].mode.width * args[t].mode.height = 14
                    THEN Widen(StoredAt6(args[t].frame))
                    ELSE DoubleZero

\* C7 amended: the inertial reader's get_frame_timestamp returns 0 when
\* width * height is not 14; when it is 14 it returns the 64-bit value at
\* byte offset 6 converted to double: that value itself when it has at most
\* 53 significant bits, and otherwise, with n significant bits, a multiple
\* of 2^(n-53) at most 2^(n-54) away from it.
C7_TimestampIsNearestDouble ==
    \A t \in Threads :
        (reader = HID /\ pc[t] = [op |-> "get_frame_timestamp", at |-> "unlock"])
        => LET v == StoredAt6(args[t].frame)
               n == bit_length(v)
           IN IF args[t].mode.width * args[t].mode.height # 14 THEN ret[t].timestamp = DoubleZero
              ELSE IF n <= 53 THEN ret[t].timestamp = Widen(v)
              ELSE /\ (ret[t].timestamp[1] + 256 * ret[t].timestamp[2]) % Pow2(n - 53) = 0
                   /\ Leq(ret[t].timestamp, add_carry(Widen(v), 1, Pow2(n - 54)))
                   /\ Leq(Widen(v), add_carry(ret[t].timestamp, 1, Pow2(n - 54)))

\* a 14-byte payload whose stored value, 2^64 - 1, no double equals
C7_Witness ==
    /\ reader = HID
    /\ pc["t1"] = [op |-> "get_frame_timestamp", at |-> "unlock"]
    /\ args["t1"].mode.width * args["t1"].mode.height = 14
    /\ StoredAt6(args["t1"].frame) = Fill(8, 255)
    /\ ret["t1"].timestamp = <<0, 0, 0, 0, 0, 0, 0, 0, 1>>

-----------------------------------------------------------------------------
(* Properties of the device *)

\* C8: get_subdevice_count returns 1 for RS400P, RS410A, RS420R and RS430C,
\* 3 for RS450T, and throws not_implemented_exception for any other
\* identifier of the first image endpoint.
C8_SubdeviceCount ==
    info_ret.called =>
        /\ info_ret.pid = depth[1].pid
        /\ info_ret.pid \in SinglePids => info_ret.out = Returns(1)
        /\ info_ret.pid \in MultiPids => info_ret.out = Returns(3)
        /\ info_ret.pid \notin rs4xx_sku_pid => info_ret.out = Throws("not_implemented_exception", 0)

C8_Witness ==
    /\ Len(depth) = 2
    /\ info_ret.called
    /\ info_ret.pid = "0x0000"
    /\ ~info_ret.out.ok

-----------------------------------------------------------------------------
(* Properties of the calibration table *)

Succeeded(k) == cal_log[k].out.ok
FirstSuccess(k) == Succeeded(k) /\ \A j \in 1 .. (k - 1) : ~Succeeded(j)

\* C10: of the successful calibration accesses of a device, the first sends
\* one request to the hardware monitor and every later one sends none and
\* returns the bytes the first returned.
C10_OneRequest ==
    \A k \in 1 .. Len(cal_log) :
        Succeeded(k) =>
            IF FirstSuccess(k) THEN cal_log[k].sent
            ELSE /\ ~cal_log[k].sent
                 /\ \A j \in 1 .. (k - 1) : FirstSuccess(j) => cal_log[k].out = cal_log[j].out

C10_Witness ==
    /\ Len(cal_log) = 3
    /\ Succeeded(1) /\ Succeeded(2) /\ Succeeded(3)
    /\ hwm.requests = 1
    /\ cal_log[3].out.value = <<1, 2>>

\* the accesses that began before any access had completed: the callers of
\* a concurrent first access
Concurrent == {k \in 1 .. Len(cal_log) : cal_log[k].began = 0}

\* C11 as stated: the callers of a concurrent first access make at most one
\* transport call between them and all return the same value.
C11_OneCallSameValue ==
    /\ Cardinality({k \in Concurrent : cal_log[k].sent}) <= 1
    /\ \A j \in Concurrent : \A k \in Concurrent : cal_log[j].out = cal_log[k].out

\* C11 amended: of the callers of a concurrent first access, never two are
\* in a transport call at once, at most one makes a transport call that
\* succeeds, a caller makes a further transport call only after every
\* earlier one failed, and all callers that return a value return the same
\* value.
C11_OneSuccessfulCall ==
    /\ Cardinality({t \in Threads : cal_pc[t] = "wait"}) <= 1
    /\ Cardinality({k \in Concurrent : cal_log[k].sent /\ Succeeded(k)}) <= 1
    /\ \A k \in Concurrent :
          cal_log[k].sent => \A j \in 1 .. (k - 1) : cal_log[j].sent /\ ~Succeeded(j)
    /\ \A j \in Concurrent : \A k \in Concurrent :
          (Succeeded(j) /\ Succeeded(k)) => cal_log[j].out = cal_log[k].out

\* both threads began the first access together; one fetched, both returned
\* the fetched bytes
C11_Witness ==
    /\ Len(cal_log) = 2
    /\ Concurrent = {1, 2}
    /\ cal_log[1].sent /\ ~cal_log[2].sent
    /\ cal_log[1].out = Returns(<<1, 2>>)
    /\ cal_log[2].out = Returns(<<1, 2>>)
    /\ hwm.requests = 1

\* C12: a calibration access whose transport call fails throws that failure
\* to its caller and leaves the cache empty, and the access that follows
\* it sends the request again.
C12_FailureNotCached ==
    /\ \A t \in Threads :
          (cal_pc[t] = "unlock" /\ ~cal_ret[t].out.ok)
          => (cal_ret[t].sent /\ cal_ret[t].out = Throws("transport", <<>>) /\ table = Empty)
    /\ \A k \in 1 .. Len(cal_log) :
          ~Succeeded(k) =>
             /\ cal_log[k].sent
             /\ cal_log[k].out.error = "transport"
             /\ k < Len(cal_log) => cal_log[k + 1].sent
             /\ (\A j \in k .. Len(cal_log) : ~Succeeded(j)) => (table = Empty \/ \E t \in Threads : cal_pc[t] = "unlock")

\* a failed access, then one that sent the request again and got the bytes
C12_Witness ==
    /\ Len(cal_log) = 2
    /\ cal_log[1].out = Throws("transport", <<>>)
    /\ cal_log[2].sent
    /\ cal_log[2].out = Returns(<<0>>)
    /\ hwm.requests = 2
    /\ table = [was_init |-> TRUE, data |-> <<0>>]

-----------------------------------------------------------------------------
(* Progress of the readers *)

-----------------------------------------------------------------------------
(* Properties of the channel state *)

\* the step is one of thread t's own
Steps(t) == pc'[t] # pc[t]

InReset(t) == pc[t] = [op |-> "reset", at |-> "loop"]

\* get_frame_counter calls on channel ch that took effect since the last
\* reset (since construction when there was none)
LastReset == IF \E k \in 1 .. Len(log) : IsReset(log[k])
             THEN CHOOSE k \in 1 .. Len(log) : IsReset(log[k]) /\ NoResetIn(k + 1, Len(log))
             ELSE 0

Served(ch) == Cardinality({k \in (LastReset + 1) .. Len(log) : IsCounter(log[k], ch)})

Fresh ==
    /\ started = [i \in 0 .. 1 |-> FALSE]
    /\ total = [i \in 0 .. 1 |-> 0]
    /\ last_timestamp = [i \in 0 .. 1 |-> 0]
    /\ counter = [i \in 0 .. 1 |-> 0]

\* C14: in every step each channel's counter stays or grows, except in a
\* step of reset's loop; no counter is ever negative.
C14_CounterMonotonic ==
    /\ [][\A ch \in Channels :
            counter'[ch] < counter[ch] => \E t \in Threads : InReset(t) /\ loc'[t].i = loc[t].i + 1]_vars
    /\ [](\A ch \in Channels : counter[ch] >= 0)

\* a reset has just lowered channel 0 from 2; channel 1 has counted to 1
C14_Witness ==
    /\ pc["t2"] = [op |-> "reset", at |-> "loop"]
    /\ loc["t2"].i = 1
    /\ Len(log) = 3
    /\ Returned(0) = <<1, 2>>
    /\ counter = [i \in 0 .. 1 |-> IF i = 0 THEN 0 ELSE 1]

\* C15: get_frame_counter works on channel 1 exactly when the stream's
\* four-character code is 0x5a313620 (image reader) or 'GYRO' (inertial
\* reader) and on channel 0 otherwise; it adds 1 to that channel's counter,
\* returns the new value, and changes no other counter and none of
\* started, total, last_timestamp.
C15_CounterEffect ==
    [][\A t \in Threads :
          (pc[t].op = "get_frame_counter" /\ Steps(t)) =>
             LET ch == IF args[t].mode.fourcc = (IF reader = UVC THEN 1513174560 ELSE 1196380751)
                       THEN 1 ELSE 0
             IN /\ UNCHANGED <<started, total, last_timestamp>>
                /\ IF pc[t].at = "store"
                   THEN /\ counter' = [counter EXCEPT ![ch] = counter[ch] + 1]
                        /\ ret'[t].counter = counter[ch] + 1
                   ELSE counter' = counter]_vars

\* a call with the fixed code has just made channel 1 count 2 while channel
\* 0 stays at 1
C15_Witness ==
    /\ pc["t1"] = [op |-> "get_frame_counter", at |-> "unlock"]
    /\ args["t1"].mode.fourcc = fixed_fourcc
    /\ ret["t1"].counter = 2
    /\ counter = [i \in 0 .. 1 |-> IF i = 0 THEN 1 ELSE 2]

\* C16: when no call is in progress, each channel's counter is the number
\* of get_frame_counter calls completed on the channel since the last
\* reset (since construction when there was none).
C16_CounterCountsCalls ==
    (\A t \in Threads : pc[t] = Idle) => \A ch \in Channels : counter[ch] = Served(ch)

C16_Witness ==
    /\ \A t \in Threads : pc[t] = Idle
    /\ Len(log) = 5
    /\ IsCounter(log[1], 0) /\ IsReset(log[2])
    /\ Served(0) = 1 /\ Served(1) = 2
    /\ counter = [i \in 0 .. 1 |-> IF i = 0 THEN 1 ELSE 2]

\* C17: whenever a reset has run its loop, once or twice in a row and from
\* whatever state, every channel has started = false, total = 0,
\* last_timestamp = 0 and counter = 0, as after construction.
C17_ResetIdempotent ==
    \A t \in Threads : pc[t] = [op |-> "reset", at |-> "unlock"] => Fresh

\* a second reset in a row, after counters had moved
C17_Witness ==
    /\ pc["t1"] = [op |-> "reset", at |-> "unlock"]
    /\ Len(log) = 4
    /\ IsCounter(log[1], 0) /\ IsCounter(log[2], 1) /\ IsReset(log[3]) /\ IsReset(log[4])
    /\ Fresh

\* C19: in every state started is false, total is 0 and last_timestamp is 0
\* on both channels.
C19_UnusedFieldsStayZero ==
    /\ started = [i \in 0 .. 1 |-> FALSE]
    /\ total = [i \in 0 .. 1 |-> 0]
    /\ last_timestamp = [i \in 0 .. 1 |-> 0]

\* frames have been served on both channels
C19_Witness ==
    /\ counter[0] >= 2 /\ counter[1] >= 2
    /\ \A k \in 1 .. Len(log) : ~IsReset(log[k])
    /\ started = [i \in 0 .. 1 |-> FALSE]
    /\ \A t \in Threads : pc[t] = Idle

\* C18: the image reader's get_frame_timestamp returns 0 for every mode,
\* frame and reader state; no step of get_frame_timestamp or validate_frame,
\* of either reader, changes started, total, last_timestamp or counter (nor
\* what get_frame_counter has returned).
C18_TimestampStub ==
    /\ [](\A t \in Threads :
            (reader = UVC /\ pc[t] = [op |-> "get_frame_timestamp", at |-> "unlock"])
            => ret[t].timestamp = [k \in 1 .. 9 |-> 0])
    /\ [][\A t \in Threads :
            (pc[t].op \in {"validate_frame", "get_frame_timestamp"} /\ Steps(t))
            => UNCHANGED <<started, total, last_timestamp, counter, log>>]_vars

\* the image reader, handed a 14-byte payload that stores 2^64 - 1, after
\* it has served frames
C18_Witness ==
    /\ reader = UVC
    /\ pc["t1"] = [op |-> "get_frame_timestamp", at |-> "unlock"]
    /\ args["t1"].mode.width * args["t1"].mode.height = 14
    /\ StoredAt6(args["t1"].frame) = Fill(8, 255)
    /\ ret["t1"].timestamp = [k \in 1 .. 9 |-> 0]
    /\ counter[1] = 2

\* C20: the inertial reader's get_frame_timestamp reads the frame's bytes 6
\* to 13 when width * height is 14 and no byte of the frame otherwise, so
\* never a byte at or past index width * height.
C20_ReadsInsidePayload ==
    \A t \in Threads :
        (reader = HID /\ pc[t] = [op |-> "get_frame_timestamp", at |-> "unlock"])
        => LET n == args[t].mode.width * args[t].mode.height
           IN /\ loc[t].reads = (IF n = 14 THEN 6 .. 13 ELSE {})
              /\ \A i \in loc[t].reads : i < n

\* a payload of 13 non-zero bytes: nothing is read
C20_Witness ==
    /\ reader = HID
    /\ pc["t1"] = [op |-> "get_frame_timestamp", at |-> "unlock"]
    /\ args["t1"].mode.width * args["t1"].mode.height = 13
    /\ args["t1"].frame = Fill(13, 255)
    /\ loc["t1"].reads = {}

====
